---- MODULE Spec2Model ----
(***************************************************************************)
(* Model of scripts/batch.py: BotManager, the supervisor of the "bot"      *)
(* (worker) and "meeting" (coordinator) child processes.                   *)
(*                                                                         *)
(* The model follows the sys.platform != "win32" branch of main(): SIGINT  *)
(* and SIGTERM are routed to signal_handler by loop.add_signal_handler, so *)
(* the handler runs as an event-loop callback, i.e. only while every       *)
(* coroutine is suspended at an await.  The driver (async_main) and the    *)
(* monitor task (monitor_processes) are coroutines of one event loop: each *)
(* runs only while the other is suspended.  Child processes and the user   *)
(* typing at the prompt are the environment.                               *)
(*                                                                         *)
(* Strings the code inspects character by character (URLs) are sequences   *)
(* of one-character strings; a character TLA+ has no escape for is written *)
(* by its code point ("U+000B").  An optional value is <<>> (None) or      *)
(* <<v>>.                                                                  *)
(***************************************************************************)
EXTENDS Integers, Sequences, FiniteSets, TLC

VARIABLES
    pc,                     \* position of main()/async_main()
    args,                   \* argparse namespace [meeting_url, persona, port]
                            \* (all None until parse_args() has returned)
    available_personas,     \* what PersonaManager().list_personas() returns
    prompts,                \* number of input() calls made by get_user_input
    meeting_url,            \* local meeting_url of async_main (<<>> while unset)
    selected_persona_name,  \* self.selected_persona_name (None or <<name>>)
    processes,              \* self.processes, in insertion order
    children,               \* OS state of each child: "absent"/"running"/"exited"
    shutdown_event,         \* self.shutdown_event (asyncio.Event)
    pending_signal,         \* a SIGINT/SIGTERM was delivered, handler not yet run
    monitor,                \* monitor task: "none"/"ready"/"sleeping"/"done"
    sweep_logged,           \* what the latest sweep iteration logged
    cleanup_i,              \* index of cleanup()'s loop over self.processes
    cleanup_calls,          \* number of cleanup() invocations begun
    after_first,            \* registry and children when cleanup() last returned
    requests,               \* terminate()/kill() calls made, in order
    log,                    \* logger entries of the driver and of cleanup()
    relays,                 \* the log_output thread of each child's stdout/stderr
    relay_logged,           \* the latest line a relay read and what it logged
    world,                  \* the part of the environment explored (see Worlds)
    exit_code               \* exit status of the supervisor (<<>> while running)

vars == <<pc, args, available_personas, prompts, meeting_url,
          selected_persona_name, processes, children, shutdown_event,
          pending_signal, monitor, sweep_logged, cleanup_i, cleanup_calls,
          after_first, requests, log, relays, relay_logged, world, exit_code>>

(***************************************************************************)
(* Bounds of the model.                                                    *)
(***************************************************************************)
\* input() calls the user may answer before only a valid URL or EOF is typed
MaxPrompts == 2
\* cleanup() invocations of the cleanup harness (SpecCleanup)
MaxCleanupCalls == 2

(***************************************************************************)
(* Values.                                                                 *)
(***************************************************************************)
None == <<>>
Some(v) == <<v>>

\* validate_url: the literal "https://"
REQUIRED_PREFIX == <<"h", "t", "t", "p", "s", ":", "/", "/">>

UrlGood   == <<"h", "t", "t", "p", "s", ":", "/", "/", "m">>
UrlHttp   == <<"h", "t", "t", "p", ":", "/", "/", "m">>
UrlPadded == <<" ", "\f", "h", "t", "t", "p", "s", ":", "/", "/", "m", "\r", " ">>
UrlBlank  == <<" ">>
UrlEmpty  == <<>>
UrlUpper  == <<"H", "T", "T", "P", "S", ":", "/", "/", "m">>

\* texts typed at the prompt or given to --meeting-url
Urls == {UrlGood, UrlHttp, UrlPadded, UrlBlank, UrlEmpty, UrlUpper}

PersonaNames == {"alpha", "beta", "gamma"}
PersonaLists == {<<>>, <<"alpha">>, <<"alpha", "beta">>}

ProcessNames == {"bot", "meeting"}

\* process.stdout, process.stderr
Streams == {"stdout", "stderr"}

\* the characters str.strip() and int() remove: those with str.isspace()
Whitespace ==
    {"\t", "\n", "U+000B", "\f", "\r", "U+001C", "U+001D", "U+001E", "U+001F",
     " ", "U+0085", "U+00A0", "U+1680", "U+2000", "U+2001", "U+2002",
     "U+2003", "U+2004", "U+2005", "U+2006", "U+2007", "U+2008", "U+2009",
     "U+200A", "U+2028", "U+2029", "U+202F", "U+205F", "U+3000"}

\* the whitespace int() skips around a number: U+001C..U+001F are left
IntWhitespace == Whitespace \ {"U+001C", "U+001D", "U+001E", "U+001F"}

\* the digits str() writes
AsciiDigits == <<"0", "1", "2", "3", "4", "5", "6", "7", "8", "9">>

\* the decimal digits int() reads: every character of category Nd, as runs
\* from the digit zero to the digit nine of each script
DigitRuns ==
    {<<"0", "1", "2", "3", "4", "5", "6", "7", "8", "9">>,
     <<"U+0660", "U+0661", "U+0662", "U+0663", "U+0664", "U+0665", "U+0666", "U+0667", "U+0668", "U+0669">>,
     <<"U+06F0", "U+06F1", "U+06F2", "U+06F3", "U+06F4", "U+06F5", "U+06F6", "U+06F7", "U+06F8", "U+06F9">>,
     <<"U+07C0", "U+07C1", "U+07C2", "U+07C3", "U+07C4", "U+07C5", "U+07C6", "U+07C7", "U+07C8", "U+07C9">>,
     <<"U+0966", "U+0967", "U+0968", "U+0969", "U+096A", "U+096B", "U+096C", "U+096D", "U+096E", "U+096F">>,
     <<"U+09E6", "U+09E7", "U+09E8", "U+09E9", "U+09EA", "U+09EB", "U+09EC", "U+09ED", "U+09EE", "U+09EF">>,
     <<"U+0A66", "U+0A67", "U+0A68", "U+0A69", "U+0A6A", "U+0A6B", "U+0A6C", "U+0A6D", "U+0A6E", "U+0A6F">>,
     <<"U+0AE6", "U+0AE7", "U+0AE8", "U+0AE9", "U+0AEA", "U+0AEB", "U+0AEC", "U+0AED", "U+0AEE", "U+0AEF">>,
     <<"U+0B66", "U+0B67", "U+0B68", "U+0B69", "U+0B6A", "U+0B6B", "U+0B6C", "U+0B6D", "U+0B6E", "U+0B6F">>,
     <<"U+0BE6", "U+0BE7", "U+0BE8", "U+0BE9", "U+0BEA", "U+0BEB", "U+0BEC", "U+0BED", "U+0BEE", "U+0BEF">>,
     <<"U+0C66", "U+0C67", "U+0C68", "U+0C69", "U+0C6A", "U+0C6B", "U+0C6C", "U+0C6D", "U+0C6E", "U+0C6F">>,
     <<"U+0CE6", "U+0CE7", "U+0CE8", "U+0CE9", "U+0CEA", "U+0CEB", "U+0CEC", "U+0CED", "U+0CEE", "U+0CEF">>,
     <<"U+0D66", "U+0D67", "U+0D68", "U+0D69", "U+0D6A", "U+0D6B", "U+0D6C", "U+0D6D", "U+0D6E", "U+0D6F">>,
     <<"U+0DE6", "U+0DE7", "U+0DE8", "U+0DE9", "U+0DEA", "U+0DEB", "U+0DEC", "U+0DED", "U+0DEE", "U+0DEF">>,
     <<"U+0E50", "U+0E51", "U+0E52", "U+0E53", "U+0E54", "U+0E55", "U+0E56", "U+0E57", "U+0E58", "U+0E59">>,
     <<"U+0ED0", "U+0ED1", "U+0ED2", "U+0ED3", "U+0ED4", "U+0ED5", "U+0ED6", "U+0ED7", "U+0ED8", "U+0ED9">>,
     <<"U+0F20", "U+0F21", "U+0F22", "U+0F23", "U+0F24", "U+0F25", "U+0F26", "U+0F27", "U+0F28", "U+0F29">>,
     <<"U+1040", "U+1041", "U+1042", "U+1043", "U+1044", "U+1045", "U+1046", "U+1047", "U+1048", "U+1049">>,
     <<"U+1090", "U+1091", "U+1092", "U+1093", "U+1094", "U+1095", "U+1096", "U+1097", "U+1098", "U+1099">>,
     <<"U+17E0", "U+17E1", "U+17E2", "U+17E3", "U+17E4", "U+17E5", "U+17E6", "U+17E7", "U+17E8", "U+17E9">>,
     <<"U+1810", "U+1811", "U+1812", "U+1813", "U+1814", "U+1815", "U+1816", "U+1817", "U+1818", "U+1819">>,
     <<"U+1946", "U+1947", "U+1948", "U+1949", "U+194A", "U+194B", "U+194C", "U+194D", "U+194E", "U+194F">>,
     <<"U+19D0", "U+19D1", "U+19D2", "U+19D3", "U+19D4", "U+19D5", "U+19D6", "U+19D7", "U+19D8", "U+19D9">>,
     <<"U+1A80", "U+1A81", "U+1A82", "U+1A83", "U+1A84", "U+1A85", "U+1A86", "U+1A87", "U+1A88", "U+1A89">>,
     <<"U+1A90", "U+1A91", "U+1A92", "U+1A93", "U+1A94", "U+1A95", "U+1A96", "U+1A97", "U+1A98", "U+1A99">>,
     <<"U+1B50", "U+1B51", "U+1B52", "U+1B53", "U+1B54", "U+1B55", "U+1B56", "U+1B57", "U+1B58", "U+1B59">>,
     <<"U+1BB0", "U+1BB1", "U+1BB2", "U+1BB3", "U+1BB4", "U+1BB5", "U+1BB6", "U+1BB7", "U+1BB8", "U+1BB9">>,
     <<"U+1C40", "U+1C41", "U+1C42", "U+1C43", "U+1C44", "U+1C45", "U+1C46", "U+1C47", "U+1C48", "U+1C49">>,
     <<"U+1C50", "U+1C51", "U+1C52", "U+1C53", "U+1C54", "U+1C55", "U+1C56", "U+1C57", "U+1C58", "U+1C59">>,
     <<"U+A620", "U+A621", "U+A622", "U+A623", "U+A624", "U+A625", "U+A626", "U+A627", "U+A628", "U+A629">>,
     <<"U+A8D0", "U+A8D1", "U+A8D2", "U+A8D3", "U+A8D4", "U+A8D5", "U+A8D6", "U+A8D7", "U+A8D8", "U+A8D9">>,
     <<"U+A900", "U+A901", "U+A902", "U+A903", "U+A904", "U+A905", "U+A906", "U+A907", "U+A908", "U+A909">>,
     <<"U+A9D0", "U+A9D1", "U+A9D2", "U+A9D3", "U+A9D4", "U+A9D5", "U+A9D6", "U+A9D7", "U+A9D8", "U+A9D9">>,
     <<"U+A9F0", "U+A9F1", "U+A9F2", "U+A9F3", "U+A9F4", "U+A9F5", "U+A9F6", "U+A9F7", "U+A9F8", "U+A9F9">>,
     <<"U+AA50", "U+AA51", "U+AA52", "U+AA53", "U+AA54", "U+AA55", "U+AA56", "U+AA57", "U+AA58", "U+AA59">>,
     <<"U+ABF0", "U+ABF1", "U+ABF2", "U+ABF3", "U+ABF4", "U+ABF5", "U+ABF6", "U+ABF7", "U+ABF8", "U+ABF9">>,
     <<"U+FF10", "U+FF11", "U+FF12", "U+FF13", "U+FF14", "U+FF15", "U+FF16", "U+FF17", "U+FF18", "U+FF19">>,
     <<"U+104A0", "U+104A1", "U+104A2", "U+104A3", "U+104A4", "U+104A5", "U+104A6", "U+104A7", "U+104A8", "U+104A9">>,
     <<"U+10D30", "U+10D31", "U+10D32", "U+10D33", "U+10D34", "U+10D35", "U+10D36", "U+10D37", "U+10D38", "U+10D39">>,
     <<"U+11066", "U+11067", "U+11068", "U+11069", "U+1106A", "U+1106B", "U+1106C", "U+1106D", "U+1106E", "U+1106F">>,
     <<"U+110F0", "U+110F1", "U+110F2", "U+110F3", "U+110F4", "U+110F5", "U+110F6", "U+110F7", "U+110F8", "U+110F9">>,
     <<"U+11136", "U+11137", "U+11138", "U+11139", "U+1113A", "U+1113B", "U+1113C", "U+1113D", "U+1113E", "U+1113F">>,
     <<"U+111D0", "U+111D1", "U+111D2", "U+111D3", "U+111D4", "U+111D5", "U+111D6", "U+111D7", "U+111D8", "U+111D9">>,
     <<"U+112F0", "U+112F1", "U+112F2", "U+112F3", "U+112F4", "U+112F5", "U+112F6", "U+112F7", "U+112F8", "U+112F9">>,
     <<"U+11450", "U+11451", "U+11452", "U+11453", "U+11454", "U+11455", "U+11456", "U+11457", "U+11458", "U+11459">>,
     <<"U+114D0", "U+114D1", "U+114D2", "U+114D3", "U+114D4", "U+114D5", "U+114D6", "U+114D7", "U+114D8", "U+114D9">>,
     <<"U+11650", "U+11651", "U+11652", "U+11653", "U+11654", "U+11655", "U+11656", "U+11657", "U+11658", "U+11659">>,
     <<"U+116C0", "U+116C1", "U+116C2", "U+116C3", "U+116C4", "U+116C5", "U+116C6", "U+116C7", "U+116C8", "U+116C9">>,
     <<"U+11730", "U+11731", "U+11732", "U+11733", "U+11734", "U+11735", "U+11736", "U+11737", "U+11738", "U+11739">>,
     <<"U+118E0", "U+118E1", "U+118E2", "U+118E3", "U+118E4", "U+118E5", "U+118E6", "U+118E7", "U+118E8", "U+118E9">>,
     <<"U+11950", "U+11951", "U+11952", "U+11953", "U+11954", "U+11955", "U+11956", "U+11957", "U+11958", "U+11959">>,
     <<"U+11C50", "U+11C51", "U+11C52", "U+11C53", "U+11C54", "U+11C55", "U+11C56", "U+11C57", "U+11C58", "U+11C59">>,
     <<"U+11D50", "U+11D51", "U+11D52", "U+11D53", "U+11D54", "U+11D55", "U+11D56", "U+11D57", "U+11D58", "U+11D59">>,
     <<"U+11DA0", "U+11DA1", "U+11DA2", "U+11DA3", "U+11DA4", "U+11DA5", "U+11DA6", "U+11DA7", "U+11DA8", "U+11DA9">>,
     <<"U+16A60", "U+16A61", "U+16A62", "U+16A63", "U+16A64", "U+16A65", "U+16A66", "U+16A67", "U+16A68", "U+16A69">>,
     <<"U+16AC0", "U+16AC1", "U+16AC2", "U+16AC3", "U+16AC4", "U+16AC5", "U+16AC6", "U+16AC7", "U+16AC8", "U+16AC9">>,
     <<"U+16B50", "U+16B51", "U+16B52", "U+16B53", "U+16B54", "U+16B55", "U+16B56", "U+16B57", "U+16B58", "U+16B59">>,
     <<"U+1D7CE", "U+1D7CF", "U+1D7D0", "U+1D7D1", "U+1D7D2", "U+1D7D3", "U+1D7D4", "U+1D7D5", "U+1D7D6", "U+1D7D7">>,
     <<"U+1D7D8", "U+1D7D9", "U+1D7DA", "U+1D7DB", "U+1D7DC", "U+1D7DD", "U+1D7DE", "U+1D7DF", "U+1D7E0", "U+1D7E1">>,
     <<"U+1D7E2", "U+1D7E3", "U+1D7E4", "U+1D7E5", "U+1D7E6", "U+1D7E7", "U+1D7E8", "U+1D7E9", "U+1D7EA", "U+1D7EB">>,
     <<"U+1D7EC", "U+1D7ED", "U+1D7EE", "U+1D7EF", "U+1D7F0", "U+1D7F1", "U+1D7F2", "U+1D7F3", "U+1D7F4", "U+1D7F5">>,
     <<"U+1D7F6", "U+1D7F7", "U+1D7F8", "U+1D7F9", "U+1D7FA", "U+1D7FB", "U+1D7FC", "U+1D7FD", "U+1D7FE", "U+1D7FF">>,
     <<"U+1E140", "U+1E141", "U+1E142", "U+1E143", "U+1E144", "U+1E145", "U+1E146", "U+1E147", "U+1E148", "U+1E149">>,
     <<"U+1E2F0", "U+1E2F1", "U+1E2F2", "U+1E2F3", "U+1E2F4", "U+1E2F5", "U+1E2F6", "U+1E2F7", "U+1E2F8", "U+1E2F9">>,
     <<"U+1E950", "U+1E951", "U+1E952", "U+1E953", "U+1E954", "U+1E955", "U+1E956", "U+1E957", "U+1E958", "U+1E959">>,
     <<"U+1FBF0", "U+1FBF1", "U+1FBF2", "U+1FBF3", "U+1FBF4", "U+1FBF5", "U+1FBF6", "U+1FBF7", "U+1FBF8", "U+1FBF9">>}

Digits == UNION {{run[k] : k \in 1..Len(run)} : run \in DigitRuns}

\* line 137: the port used when neither --port nor PORT is given
DEFAULT_PORT == 8765

\* texts given to --port or found in the environment variable PORT
PortTexts ==
    {<<"9", "0">>,
     <<" ", "+", "9", "_", "0", "\n">>,
     <<"U+0669", "U+0660">>,
     <<"U+001C", "9", "0">>,
     <<"a", "b", "c">>,
     <<>>}

(***************************************************************************)
(* Pure functions.                                                         *)
(***************************************************************************)
RECURSIVE lstrip_chars(_, _)
lstrip_chars(s, chars) ==
    IF s # <<>> /\ Head(s) \in chars THEN lstrip_chars(Tail(s), chars) ELSE s

RECURSIVE rstrip_chars(_, _)
rstrip_chars(s, chars) ==
    IF s # <<>> /\ s[Len(s)] \in chars
    THEN rstrip_chars(SubSeq(s, 1, Len(s) - 1), chars)
    ELSE s

lstrip(s) == lstrip_chars(s, Whitespace)

rstrip(s) == rstrip_chars(s, Whitespace)

\* str.strip()
strip(s) == rstrip(lstrip(s))

\* str.startswith(prefix)
startswith(s, prefix) ==
    /\ Len(s) >= Len(prefix)
    /\ SubSeq(s, 1, Len(prefix)) = prefix

\* the value of a decimal digit: its place in its run
DigitValue(c) ==
    CHOOSE d \in 0..9 : \E run \in DigitRuns : run[d + 1] = c

DigitChar(d) == AsciiDigits[d + 1]

\* the text after an optional sign
unsigned(t) == IF t # <<>> /\ t[1] \in {"+", "-"} THEN Tail(t) ELSE t

\* digits, with single underscores between digits only
int_body_ok(b) ==
    /\ b # <<>>
    /\ b[1] \in Digits
    /\ b[Len(b)] \in Digits
    /\ \A k \in 1..Len(b) : b[k] \in Digits \cup {"_"}
    /\ \A k \in 1..(Len(b) - 1) : ~(b[k] = "_" /\ b[k + 1] = "_")

RECURSIVE digits_value(_)
digits_value(b) ==
    IF b = <<>> THEN 0
    ELSE LET front == SubSeq(b, 1, Len(b) - 1) IN
         IF b[Len(b)] = "_" THEN digits_value(front)
         ELSE 10 * digits_value(front) + DigitValue(b[Len(b)])

\* int(text): Some(value), or None when it raises ValueError
int(text) ==
    LET t == rstrip_chars(lstrip_chars(text, IntWhitespace), IntWhitespace)
        b == unsigned(t)
    IN IF int_body_ok(b)
       THEN Some(IF t[1] = "-" THEN 0 - digits_value(b) ELSE digits_value(b))
       ELSE None

RECURSIVE str_nat(_)
str_nat(n) ==
    IF n < 10 THEN <<DigitChar(n)>>
    ELSE Append(str_nat(n \div 10), DigitChar(n % 10))

\* str(n) of an int
str(n) == IF n < 0 THEN <<"-">> \o str_nat(0 - n) ELSE str_nat(n)

\* line 137: int(os.getenv("PORT", 8765)), None when it raises ValueError
default_port(env_PORT) ==
    IF env_PORT = None THEN Some(DEFAULT_PORT) ELSE int(env_PORT[1])

\* validate_url raises ValueError exactly when this is FALSE, and returns url
validate_url_ok(url) == startswith(url, REQUIRED_PREFIX)

\* Python truthiness of an optional string: neither None nor empty
TruthyUrl(opt) == opt # None /\ opt[1] # <<>>
TruthyName(opt) == opt # None /\ opt[1] # ""

InSeq(x, s) == \E k \in 1..Len(s) : s[k] = x

\* mutant: the membership test of line 158 is dropped
MutPersonaFoundAlways(name, available) == TRUE

\* line 158: args.persona in available_personas
persona_found(name, available) == InSeq(name, available)

\* the names registered in self.processes, in order
Names(reg) == [k \in 1..Len(reg) |-> reg[k].name]

Registered(name) == InSeq(name, Names(processes))

\* Popen.poll() is None
PollIsNone(name) == children[name] = "running"

\* PersonaManager().get_persona(name)
get_persona(name) == [prompt |-> <<"prompt of", name>>]

\* the command lines built by async_main
BotCommand(port, persona) ==
    [prog |-> "bot", p |-> str(port),
     system_prompt |-> get_persona(persona).prompt,
     persona_name |-> persona,
     voice_id |-> "40104aff-a015-4da1-9912-af950fbec99e"]

MeetingCommand(url, persona) ==
    [prog |-> "meetingbaas", meeting_url |-> url, persona_name |-> persona]

LogEntry(level, msg, name) == [level |-> level, msg |-> msg, name |-> name]

Logged(entries) == log \o entries

\* the driver is suspended at an await: event-loop callbacks and the monitor
\* task run only then
AtAwait == pc \in {"sleep_after_bot", "waiting", "join_monitor", "cleanup_sleep"}

(***************************************************************************)
(* log_output(stream, prefix): the relay of one stream of one child, in a  *)
(* daemon thread of its own.                                               *)
(***************************************************************************)
W_ERROR   == <<"E", "R", "R", "O", "R">>
W_WARNING == <<"W", "A", "R", "N", "I", "N", "G">>
W_SUCCESS == <<"S", "U", "C", "C", "E", "S", "S">>

\* lines a child may write
Lines ==
    {<<>>,
     <<" ", "\f", "\n">>,
     <<"o", "k", "\n">>,
     W_ERROR \o <<"\n">>,
     <<" ", "x">> \o W_ERROR \o <<"x", " ", "\n">>,
     W_WARNING \o <<"\n">>,
     W_SUCCESS \o <<"\n">>,
     W_WARNING \o <<" ">> \o W_ERROR \o <<"\n">>,
     W_SUCCESS \o <<" ">> \o W_WARNING \o <<"\n">>,
     W_SUCCESS \o <<" ">> \o W_ERROR \o <<"\n">>,
     <<"e", "r", "r", "o", "r", "\n">>,
     <<"E", "R", "R", " ", "O", "R", "\n">>}

\* word in line
Contains(line, word) ==
    \E k \in 1..(Len(line) - Len(word) + 1) :
        SubSeq(line, k, k + Len(word) - 1) = word

\* mutant: the WARNING test comes before the ERROR test
MutClassifyWarningFirst(line) ==
    IF Contains(line, W_WARNING) THEN "warning"
    ELSE IF Contains(line, W_ERROR) THEN "error"
    ELSE IF Contains(line, W_SUCCESS) THEN "success"
    ELSE "info"

\* lines 65-72: the logger method a non-empty line goes to
classify(line) ==
    IF Contains(line, W_ERROR) THEN "error"
    ELSE IF Contains(line, W_WARNING) THEN "warning"
    ELSE IF Contains(line, W_SUCCESS) THEN "success"
    ELSE "info"

\* lines 63-72: what the loop body logs for one line read from the stream
log_output_entries(prefix, raw) ==
    LET line == strip(raw) IN
      IF line # <<>>
      THEN <<[level |-> classify(line), prefix |-> prefix, line |-> line]>>
      ELSE <<>>

(***************************************************************************)
(* Initial state: BotManager() constructed, main() about to be called,     *)
(* some persona collection on disk.  The command line and the environment  *)
(* are read by parse_args.                                                 *)
(***************************************************************************)
\* the command lines: the text given to each option (as in --port=text),
\* None without it; where -h/--help stands, before or after every other
\* argument; what else is wrong with the line
ArgsSpace ==
    [meeting_url : {None} \cup {Some(u) : u \in Urls},
     persona : {None} \cup {Some(n) : n \in PersonaNames \cup {""}},
     port : {None} \cup {Some(t) : t \in PortTexts},
     help : {None, Some("first"), Some("last")},
     malformed : {None, Some("expected one argument"),
                  Some("unrecognized arguments")}]

\* os.getenv("PORT"): None when the variable is not set
PortEnvs == {None} \cup {Some(t) : t \in PortTexts}

\* the local args of async_main before line 143
NoArgs == [meeting_url |-> None, persona |-> None, port |-> None]

(***************************************************************************)
(* The part of the environment a behaviour explores.  Each world varies    *)
(* one part and keeps the rest plain: the command line --meeting-url       *)
(* https://m, no PORT, the persona collection ["alpha"], children that     *)
(* write nothing and whose pipes stay open when they exit (held by a       *)
(* grandchild), so that their relays stay in their read.                   *)
(*   "urls":     every --meeting-url, and the prompt;                      *)
(*   "personas": every --persona and persona collection;                   *)
(*   "ports":    every --port and PORT, -h, malformed command lines;       *)
(*   "relays":   pipes that reach end of file when the child exits, a bot  *)
(*               that writes, and whose stdout may end early or fail;      *)
(*   "all lines": both children write every line of Lines, every stream    *)
(*               may end early or fail.                                    *)
(***************************************************************************)
Worlds == {"urls", "personas", "ports", "relays"}

PlainCommandLine ==
    [meeting_url |-> Some(UrlGood), persona |-> None, port |-> None,
     help |-> None, malformed |-> None]

\* sys.argv of the world
WorldCommandLines(w) ==
    {a \in ArgsSpace :
        /\ w # "urls" => a.meeting_url = PlainCommandLine.meeting_url
        /\ w # "personas" => a.persona = PlainCommandLine.persona
        /\ w # "ports" => /\ a.port = PlainCommandLine.port
                          /\ a.help = PlainCommandLine.help
                          /\ a.malformed = PlainCommandLine.malformed}

\* os.getenv("PORT") of the world
WorldPortEnvs(w) == IF w = "ports" THEN PortEnvs ELSE {None}

\* PersonaManager().list_personas() of the world
WorldPersonaLists(w) == IF w = "personas" THEN PersonaLists ELSE {<<"alpha">>}

\* the lines a child of the world writes
WorldLines(w, name) ==
    IF w = "all lines" THEN Lines
    ELSE IF w = "relays" /\ name = "bot" THEN {W_ERROR \o <<"\n">>}
    ELSE {}

\* the children's pipes can reach end of file (at any time after the spawn)
WorldPipesClose(w) == w \in {"relays", "all lines"}

\* the streams whose bytes may fail to decode
WorldFaultyStreams(w) ==
    IF w = "all lines" THEN ProcessNames \X Streams
    ELSE IF w = "relays" THEN {<<"bot", "stdout">>}
    ELSE {}

Init ==
    /\ pc = "main"
    /\ args = NoArgs
    /\ world \in Worlds
    /\ available_personas \in WorldPersonaLists(world)
    /\ prompts = 0
    /\ meeting_url = <<>>
    /\ selected_persona_name = None
    /\ processes = <<>>
    /\ children = [n \in ProcessNames |-> "absent"]
    /\ shutdown_event = FALSE
    /\ pending_signal = FALSE
    /\ monitor = "none"
    /\ sweep_logged = [error |-> FALSE, exited |-> {}]
    /\ cleanup_i = 0
    /\ cleanup_calls = 0
    /\ after_first = None
    /\ requests = <<>>
    /\ log = <<>>
    /\ relays = [n \in ProcessNames |-> [s \in Streams |-> "none"]]
    /\ relay_logged = None
    /\ exit_code = None

(***************************************************************************)
(* main() and the argument / URL part of async_main().                     *)
(***************************************************************************)
\* main(): install the signal handlers, run async_main on the loop
main ==
    /\ pc = "main"
    /\ pc' = "parse_args"
    /\ UNCHANGED <<relays, relay_logged, args, world, available_personas, prompts, meeting_url,
                   selected_persona_name, processes, children, shutdown_event,
                   pending_signal, monitor, sweep_logged, cleanup_i,
                   cleanup_calls, after_first, requests, log, exit_code>>

\* the status argparse's error() leaves the interpreter with (SystemExit(2)
\* is no Exception: main() does not catch it)
ExitCodeOnUsageError == Some(2)

\* the status the help action leaves the interpreter with (SystemExit(0))
ExitCodeOnHelp == Some(0)

\* line 143: parser.parse_args() takes the arguments in order: -h prints
\* the usage and exits; an option without its value and a --port that
\* int() rejects are errors where they stand; arguments no option takes
\* are an error at the end.  None when the line is accepted.
parse_args_exit(argv) ==
    IF argv.help = Some("first") THEN ExitCodeOnHelp
    ELSE IF \/ argv.port # None /\ int(argv.port[1]) = None
            \/ argv.malformed = Some("expected one argument")
         THEN ExitCodeOnUsageError
    ELSE IF argv.help = Some("last") THEN ExitCodeOnHelp
    ELSE IF argv.malformed = Some("unrecognized arguments")
         THEN ExitCodeOnUsageError
    ELSE None

\* lines 127-146: build the parser (line 137 reads PORT and raises
\* ValueError on a text int() rejects: main() logs it and calls
\* sys.exit(1)), parse the command line (SystemExit leaves main()
\* unlogged), then meeting_url = args.meeting_url; if not meeting_url:
\* prompt for it
parse_args ==
    /\ pc = "parse_args"
    /\ \E env_PORT \in WorldPortEnvs(world), argv \in WorldCommandLines(world) :
         IF default_port(env_PORT) = None
         THEN /\ pc' = "exited"
              /\ exit_code' = Some(1)
              /\ log' = Logged(<<LogEntry("error", "Fatal error in main program", "")>>)
              /\ UNCHANGED <<args, meeting_url>>
         ELSE IF parse_args_exit(argv) # None
         THEN /\ pc' = "exited"
              /\ exit_code' = parse_args_exit(argv)
              /\ UNCHANGED <<args, meeting_url, log>>
         ELSE /\ args' = [meeting_url |-> argv.meeting_url,
                          persona |-> argv.persona,
                          port |-> IF argv.port = None
                                   THEN default_port(env_PORT)
                                   ELSE int(argv.port[1])]
              /\ IF TruthyUrl(argv.meeting_url)
                 THEN /\ meeting_url' = argv.meeting_url[1]
                      /\ pc' = "try"
                 ELSE /\ meeting_url' = meeting_url
                      /\ pc' = "prompt"
              /\ UNCHANGED <<log, exit_code>>
    /\ UNCHANGED <<relays, relay_logged, world, available_personas, prompts,
                   selected_persona_name, processes, children, shutdown_event,
                   pending_signal, monitor, sweep_logged, cleanup_i,
                   cleanup_calls, after_first, requests>>

\* one turn of get_user_input's loop: input(), strip(), validate_url
get_user_input ==
    /\ pc = "prompt"
    /\ \E typed \in Urls :
         LET user_input == strip(typed) IN
           /\ prompts < MaxPrompts \/ validate_url_ok(user_input)
           /\ prompts' = prompts + 1
           /\ IF validate_url_ok(user_input)
              THEN /\ meeting_url' = user_input
                   /\ pc' = "try"
                   /\ log' = log
              ELSE /\ meeting_url' = meeting_url
                   /\ pc' = "prompt"
                   /\ log' = Logged(<<LogEntry("warning", "Invalid input received", "")>>)
    /\ UNCHANGED <<relays, relay_logged, args, world, available_personas,
                   selected_persona_name, processes, children, shutdown_event,
                   pending_signal, monitor, sweep_logged, cleanup_i,
                   cleanup_calls, after_first, requests, exit_code>>

\* input() is called and raises EOFError: it leaves async_main (the prompt
\* is outside the try) and main() logs it and calls sys.exit(1)
input_eof ==
    /\ pc = "prompt"
    /\ pc' = "exited"
    /\ prompts' = prompts + 1
    /\ log' = Logged(<<LogEntry("error", "Fatal error in main program", "")>>)
    /\ exit_code' = Some(1)
    /\ UNCHANGED <<relays, relay_logged, args, world, available_personas, meeting_url,
                   selected_persona_name, processes, children, shutdown_event,
                   pending_signal, monitor, sweep_logged, cleanup_i,
                   cleanup_calls, after_first, requests>>

(***************************************************************************)
(* run_command(command, name): Popen, two relay threads, registration.     *)
(* outcome "ok": everything worked; "spawn_failed": Popen raised;          *)
(* "relay_failed": Popen worked and the first Thread(...).start() raised;   *)
(* "second_relay_failed": the stdout relay runs, the second start() raised.*)
(***************************************************************************)
Outcomes == {"ok", "spawn_failed", "relay_failed", "second_relay_failed"}

\* self.processes[name] = value on an insertion-ordered dict
DictSet(reg, name, value) ==
    IF InSeq(name, Names(reg))
    THEN [k \in 1..Len(reg) |-> IF reg[k].name = name THEN value ELSE reg[k]]
    ELSE Append(reg, value)

\* mutant: run_command hands back a handle although the start failed
MutReturnsHandleAlways(outcome) == TRUE

\* the handle run_command returns is not None
run_command_returns_handle(outcome) == outcome = "ok"

run_command_processes(reg, name, command, outcome) ==
    IF outcome = "ok"
    THEN DictSet(reg, name, [name |-> name, command |-> command])
    ELSE reg

run_command_children(ch, name, outcome) ==
    IF outcome \in {"ok", "relay_failed", "second_relay_failed"}
    THEN [ch EXCEPT ![name] = "running"]
    ELSE ch

\* lines 74-79: the two daemon threads running log_output
run_command_relays(rel, name, outcome) ==
    [rel EXCEPT ![name] =
        [s \in Streams |->
            IF outcome = "ok" \/ (outcome = "second_relay_failed" /\ s = "stdout")
            THEN "reading" ELSE rel[name][s]]]

\* lines 83-88: the except clause logs the error, then its traceback
run_command_log(name, outcome) ==
    IF outcome = "ok"
    THEN <<>>
    ELSE <<LogEntry("error", "Failed to start", name),
           LogEntry("error", "Traceback", name)>>

(***************************************************************************)
(* The try block of async_main(), up to the blocking wait.                 *)
(***************************************************************************)
\* lines 152-168: list_personas, --persona check or random.choice,
\* get_persona; a ValueError / IndexError is caught at line 231
resolve_persona ==
    /\ pc = "try"
    /\ \/ /\ TruthyName(args.persona)
          /\ persona_found(args.persona[1], available_personas)
          /\ selected_persona_name' = args.persona
          /\ pc' = "start_bot"
          /\ log' = Logged(<<LogEntry("info", "Starting bot", ""),
                             LogEntry("warning", "Selected persona", args.persona[1]),
                             LogEntry("warning", "System prompt", args.persona[1])>>)
       \/ /\ TruthyName(args.persona)
          /\ ~persona_found(args.persona[1], available_personas)
          /\ selected_persona_name' = selected_persona_name
          /\ pc' = "finally"
          /\ log' = Logged(<<LogEntry("info", "Starting bot", ""),
                             LogEntry("error", "Unexpected error: persona not found",
                                      args.persona[1])>>)
       \/ /\ ~TruthyName(args.persona)
          /\ \E k \in 1..Len(available_personas) :
               /\ selected_persona_name' = Some(available_personas[k])
               /\ log' = Logged(<<LogEntry("info", "Starting bot", ""),
                                  LogEntry("warning", "Selected persona",
                                           available_personas[k]),
                                  LogEntry("warning", "System prompt",
                                           available_personas[k])>>)
          /\ pc' = "start_bot"
       \/ /\ ~TruthyName(args.persona)
          /\ available_personas = <<>>
          /\ selected_persona_name' = selected_persona_name
          /\ pc' = "finally"
          /\ log' = Logged(<<LogEntry("info", "Starting bot", ""),
                             LogEntry("error", "Unexpected error: IndexError", "")>>)
    /\ UNCHANGED <<relays, relay_logged, args, world, available_personas, prompts, meeting_url,
                   processes, children, shutdown_event,
                   pending_signal, monitor, sweep_logged, cleanup_i,
                   cleanup_calls, after_first, requests, exit_code>>

\* lines 171-192: start the worker; without a handle, return (to the finally)
start_bot ==
    /\ pc = "start_bot"
    /\ \E outcome \in Outcomes :
         LET command == BotCommand(args.port[1], selected_persona_name[1]) IN
           /\ processes' = run_command_processes(processes, "bot", command, outcome)
           /\ children' = run_command_children(children, "bot", outcome)
           /\ relays' = run_command_relays(relays, "bot", outcome)
           /\ IF run_command_returns_handle(outcome)
              THEN /\ pc' = "sleep_after_bot"
                   /\ log' = Logged(run_command_log("bot", outcome))
              ELSE /\ pc' = "finally"
                   /\ log' = Logged(run_command_log("bot", outcome)
                                    \o <<LogEntry("error", "Failed to start bot", "")>>)
    /\ UNCHANGED <<relay_logged, args, world, available_personas, prompts, meeting_url,
                   selected_persona_name, shutdown_event,
                   pending_signal, monitor, sweep_logged, cleanup_i,
                   cleanup_calls, after_first, requests, exit_code>>

\* line 194: await asyncio.sleep(1) is over
sleep_after_bot ==
    /\ pc = "sleep_after_bot"
    /\ pc' = "start_meeting"
    /\ UNCHANGED <<relays, relay_logged, args, world, available_personas, prompts, meeting_url,
                   selected_persona_name, processes, children, shutdown_event,
                   pending_signal, monitor, sweep_logged, cleanup_i,
                   cleanup_calls, after_first, requests, log, exit_code>>

\* lines 197-219: start the coordinator; with a handle, create the monitor task
start_meeting ==
    /\ pc = "start_meeting"
    /\ \E outcome \in Outcomes :
         LET command == MeetingCommand(meeting_url, selected_persona_name[1]) IN
           /\ processes' = run_command_processes(processes, "meeting", command, outcome)
           /\ children' = run_command_children(children, "meeting", outcome)
           /\ relays' = run_command_relays(relays, "meeting", outcome)
           /\ IF run_command_returns_handle(outcome)
              THEN /\ pc' = "wait"
                   /\ monitor' = "ready"
                   /\ log' = Logged(run_command_log("meeting", outcome)
                                    \o <<LogEntry("success", "Successfully started", ""),
                                         LogEntry("info", "Press Ctrl+C to stop all processes", "")>>)
              ELSE /\ pc' = "finally"
                   /\ monitor' = monitor
                   /\ log' = Logged(run_command_log("meeting", outcome)
                                    \o <<LogEntry("error", "Failed to start meeting", "")>>)
    /\ UNCHANGED <<relay_logged, args, world, available_personas, prompts, meeting_url,
                   selected_persona_name, shutdown_event,
                   pending_signal, sweep_logged, cleanup_i,
                   cleanup_calls, after_first, requests, exit_code>>

(***************************************************************************)
(* The blocking wait and the shutdown_event.                               *)
(***************************************************************************)
\* mutant: setting the event a second time clears it
MutEventSetToggles(flag) == ~flag

\* asyncio.Event.set(): idempotent
EventSet(flag) == TRUE

\* mutant: the driver waits on a fresh event, forgetting an earlier set()
MutWaitBeginClearsEvent ==
    /\ pc = "wait"
    /\ pc' = "waiting"
    /\ shutdown_event' = FALSE
    /\ UNCHANGED <<relays, relay_logged, args, world, available_personas, prompts, meeting_url,
                   selected_persona_name, processes, children,
                   pending_signal, monitor, sweep_logged, cleanup_i,
                   cleanup_calls, after_first, requests, log, exit_code>>

\* line 222: await self.shutdown_event.wait() returns at once when the event
\* is set, else the driver is suspended
wait_begin ==
    /\ pc = "wait"
    /\ pc' = IF shutdown_event THEN "wait_finally" ELSE "waiting"
    /\ UNCHANGED <<relays, relay_logged, args, world, available_personas, prompts, meeting_url,
                   selected_persona_name, processes, children, shutdown_event,
                   pending_signal, monitor, sweep_logged, cleanup_i,
                   cleanup_calls, after_first, requests, log, exit_code>>

\* mutant: the wait is also resumed by the end of the monitor task
MutWaitResumeOnMonitorEnd ==
    /\ pc = "waiting"
    /\ shutdown_event \/ monitor \in {"done", "cancelled"}
    /\ pc' = "wait_finally"
    /\ UNCHANGED <<relays, relay_logged, args, world, available_personas, prompts, meeting_url,
                   selected_persona_name, processes, children, shutdown_event,
                   pending_signal, monitor, sweep_logged, cleanup_i,
                   cleanup_calls, after_first, requests, log, exit_code>>

\* line 222: the suspended wait is resumed by the event
wait_resume ==
    /\ pc = "waiting"
    /\ shutdown_event
    /\ pc' = "wait_finally"
    /\ UNCHANGED <<relays, relay_logged, args, world, available_personas, prompts, meeting_url,
                   selected_persona_name, processes, children, shutdown_event,
                   pending_signal, monitor, sweep_logged, cleanup_i,
                   cleanup_calls, after_first, requests, log, exit_code>>

\* lines 225-227: finally: self.shutdown_event.set(); await monitor_task
wait_finally ==
    /\ pc = "wait_finally"
    /\ shutdown_event' = EventSet(shutdown_event)
    /\ pc' = "join_monitor"
    /\ UNCHANGED <<relays, relay_logged, args, world, available_personas, prompts, meeting_url,
                   selected_persona_name, processes, children,
                   pending_signal, monitor, sweep_logged, cleanup_i,
                   cleanup_calls, after_first, requests, log, exit_code>>

\* mutant: the driver does not await the monitor task before cleanup
MutJoinMonitorNoWait ==
    /\ pc = "join_monitor"
    /\ pc' = "finally"
    /\ UNCHANGED <<relays, relay_logged, args, world, available_personas, prompts, meeting_url,
                   selected_persona_name, processes, children, shutdown_event,
                   pending_signal, monitor, sweep_logged, cleanup_i,
                   cleanup_calls, after_first, requests, log, exit_code>>

\* line 227: await monitor_task returns when the task has finished, and
\* raises CancelledError when the task was cancelled; that is no Exception
\* (line 231), so the finally (line 233) runs with it pending
join_monitor ==
    /\ pc = "join_monitor"
    /\ monitor \in {"done", "cancelled"}
    /\ pc' = "finally"
    /\ UNCHANGED <<relays, relay_logged, args, world, available_personas, prompts, meeting_url,
                   selected_persona_name, processes, children, shutdown_event,
                   pending_signal, monitor, sweep_logged, cleanup_i,
                   cleanup_calls, after_first, requests, log, exit_code>>

\* mutant: the handler tears the children down itself
MutSignalHandlerTerminates ==
    /\ pending_signal
    /\ AtAwait
    /\ shutdown_event' = TRUE
    /\ pending_signal' = FALSE
    /\ requests' = requests \o [k \in 1..Len(processes) |->
                                 [op |-> "terminate", name |-> processes[k].name,
                                  raised |-> FALSE]]
    /\ UNCHANGED <<relays, relay_logged, pc, args, world, available_personas, prompts, meeting_url,
                   selected_persona_name, processes, children,
                   monitor, sweep_logged, cleanup_i,
                   cleanup_calls, after_first, log, exit_code>>

\* lines 247-251: the event loop runs signal_handler for a delivered signal
signal_handler ==
    /\ pending_signal
    /\ AtAwait
    /\ shutdown_event' = EventSet(shutdown_event)
    /\ pending_signal' = FALSE
    /\ UNCHANGED <<relays, relay_logged, pc, args, world, available_personas, prompts, meeting_url,
                   selected_persona_name, processes, children,
                   monitor, sweep_logged, cleanup_i,
                   cleanup_calls, after_first, requests, log, exit_code>>

(***************************************************************************)
(* monitor_processes(): the liveness sweep.                                *)
(***************************************************************************)
\* what one pass of the for loop logs when the first n entries are polled
\* and (for n < Len(reg)) polling entry n+1 raises
SweepLog(reg, ch, n) ==
    [error  |-> n < Len(reg),
     exited |-> {reg[k].name : k \in {j \in 1..n : ch[reg[j].name] = "exited"}}]

\* mutant: while True
MutMonitorLoopForever(flag) == TRUE

\* line 111: while not self.shutdown_event.is_set()
MonitorLoopCondition(flag) == ~flag

\* mutant: a sweep that restarts the children it finds exited
MutMonitorRestarts ==
    /\ monitor \in {"ready", "sleeping"}
    /\ AtAwait
    /\ ~shutdown_event
    /\ monitor' = "sleeping"
    /\ sweep_logged' = SweepLog(processes, children, Len(processes))
    /\ children' = [n \in ProcessNames |->
                      IF Registered(n) /\ children[n] = "exited"
                      THEN "running" ELSE children[n]]
    /\ UNCHANGED <<relays, relay_logged, pc, args, world, available_personas, prompts, meeting_url,
                   selected_persona_name, processes, shutdown_event,
                   pending_signal, cleanup_i,
                   cleanup_calls, after_first, requests, log, exit_code>>

\* mutant: an exception in the sweep ends the loop
MutMonitorEndsOnError ==
    /\ monitor \in {"ready", "sleeping"}
    /\ AtAwait
    /\ \/ /\ shutdown_event
          /\ monitor' = "done"
          /\ sweep_logged' = sweep_logged
       \/ /\ ~shutdown_event
          /\ \E n \in 0..Len(processes) :
               /\ sweep_logged' = SweepLog(processes, children, n)
               /\ monitor' = IF n < Len(processes) THEN "done" ELSE "sleeping"
    /\ UNCHANGED <<relays, relay_logged, pc, args, world, available_personas, prompts, meeting_url,
                   selected_persona_name, processes, children, shutdown_event,
                   pending_signal, cleanup_i,
                   cleanup_calls, after_first, requests, log, exit_code>>

\* lines 111-124: one turn of the while loop, from the test of the event to
\* the sleep; the task ends when the event is set
monitor_processes ==
    /\ monitor \in {"ready", "sleeping"}
    /\ AtAwait
    /\ \/ /\ ~MonitorLoopCondition(shutdown_event)
          /\ monitor' = "done"
          /\ sweep_logged' = sweep_logged
       \/ /\ MonitorLoopCondition(shutdown_event)
          /\ monitor' = "sleeping"
          /\ \E n \in 0..Len(processes) :
               sweep_logged' = SweepLog(processes, children, n)
    /\ UNCHANGED <<relays, relay_logged, pc, args, world, available_personas, prompts, meeting_url,
                   selected_persona_name, processes, children, shutdown_event,
                   pending_signal, cleanup_i,
                   cleanup_calls, after_first, requests, log, exit_code>>

(***************************************************************************)
(* cleanup().                                                              *)
(***************************************************************************)
Request(op, name, raised) == [op |-> op, name |-> name, raised |-> raised]

\* line 234 / lines 90-93: cleanup() is called and starts its loop
cleanup_begin ==
    /\ pc = "finally"
    /\ pc' = "cleanup_loop"
    /\ cleanup_i' = 1
    /\ cleanup_calls' = cleanup_calls + 1
    /\ UNCHANGED <<relays, relay_logged, args, world, available_personas, prompts, meeting_url,
                   selected_persona_name, processes, children, shutdown_event,
                   pending_signal, monitor, sweep_logged,
                   after_first, requests, log, exit_code>>

\* mutant: without the inner except the outer one (lines 106-107) ends the loop
MutAfterTerminateErrorAborts(i) == [pc |-> "cleanup_returned", i |-> i]

\* where cleanup() continues after process.terminate() raised: the inner
\* except (lines 102-103) logs and the loop goes to the next process
AfterTerminateError(i) == [pc |-> "cleanup_loop", i |-> i + 1]

\* lines 93-97: next process of the loop: log, process.terminate(), then
\* either the sleep or, if terminate raised, the inner except
cleanup_terminate ==
    /\ pc = "cleanup_loop"
    /\ cleanup_i <= Len(processes)
    /\ LET name == processes[cleanup_i].name IN
       \E raised \in BOOLEAN :
         /\ requests' = Append(requests, Request("terminate", name, raised))
         /\ IF raised
            THEN /\ pc' = AfterTerminateError(cleanup_i).pc
                 /\ cleanup_i' = AfterTerminateError(cleanup_i).i
                 /\ log' = Logged(<<LogEntry("info", "Terminating process", name),
                                    LogEntry("error", "Error terminating process", name)>>)
            ELSE /\ pc' = "cleanup_sleep"
                 /\ cleanup_i' = cleanup_i
                 /\ log' = Logged(<<LogEntry("info", "Terminating process", name)>>)
    /\ UNCHANGED <<relays, relay_logged, args, world, available_personas, prompts, meeting_url,
                   selected_persona_name, processes, children, shutdown_event,
                   pending_signal, monitor, sweep_logged,
                   cleanup_calls, after_first, exit_code>>

\* mutant: kill without polling
MutMustKillAlways(name) == TRUE

\* line 99: the test that guards process.kill()
MustKill(name) == PollIsNone(name)

\* lines 98-103: the sleep is over: poll, kill if still running, log;
\* poll() or kill() may raise, which the inner except logs.  kill() only
\* sends SIGKILL: the child is gone some time later (child_exit)
cleanup_poll_kill ==
    /\ pc = "cleanup_sleep"
    /\ LET name == processes[cleanup_i].name IN
         \/ /\ requests' = requests
            /\ log' = Logged(<<LogEntry("error", "Error terminating process", name)>>)
         \/ /\ MustKill(name)
            /\ \E raised \in BOOLEAN :
                 /\ requests' = Append(requests, Request("kill", name, raised))
                 /\ log' = Logged(<<LogEntry(IF raised THEN "error" ELSE "success",
                                             IF raised THEN "Error terminating process"
                                                       ELSE "terminated successfully",
                                             name)>>)
         \/ /\ ~MustKill(name)
            /\ requests' = requests
            /\ log' = Logged(<<LogEntry("success", "terminated successfully", name)>>)
    /\ pc' = "cleanup_loop"
    /\ cleanup_i' = cleanup_i + 1
    /\ UNCHANGED <<relays, relay_logged, args, world, available_personas, prompts, meeting_url,
                   selected_persona_name, processes, children, shutdown_event,
                   pending_signal, monitor, sweep_logged,
                   cleanup_calls, after_first, exit_code>>

\* lines 93, 105: the loop is exhausted: log and return
cleanup_return ==
    /\ pc = "cleanup_loop"
    /\ cleanup_i > Len(processes)
    /\ pc' = "cleanup_returned"
    /\ log' = Logged(<<LogEntry("success", "Cleanup completed successfully", "cleanup")>>)
    /\ after_first' = IF cleanup_calls = 1
                      THEN Some([processes |-> processes, children |-> children,
                                 requests |-> requests])
                      ELSE after_first
    /\ UNCHANGED <<relays, relay_logged, args, world, available_personas, prompts, meeting_url,
                   selected_persona_name, processes, children, shutdown_event,
                   pending_signal, monitor, sweep_logged, cleanup_i,
                   cleanup_calls, requests, exit_code>>

\* the status main() leaves the interpreter with when async_main returns
\* normally: no sys.exit, so 0
ExitCodeOnReturn == Some(0)

\* the status of an interpreter that main() leaves with an exception that
\* its except Exception (line 260) does not catch
ExitCodeOnUncaught == Some(1)

\* line 235 and main() lines 254-256: async_main logs and returns, the loop
\* is closed and main() returns; a CancelledError pending since line 227
\* leaves async_main and main() instead
async_main_return ==
    /\ pc = "cleanup_returned"
    /\ pc' = "done"
    /\ log' = Logged(<<LogEntry("success", "Cleanup completed successfully", "async_main")>>)
    /\ exit_code' = IF monitor = "cancelled" THEN ExitCodeOnUncaught ELSE ExitCodeOnReturn
    /\ UNCHANGED <<relays, relay_logged, args, world, available_personas, prompts, meeting_url,
                   selected_persona_name, processes, children, shutdown_event,
                   pending_signal, monitor, sweep_logged, cleanup_i,
                   cleanup_calls, after_first, requests>>

(***************************************************************************)
(* Environment: the children and the operating system's signals.           *)
(***************************************************************************)
\* a running child exits (on its own, or because it honours SIGTERM, or
\* because SIGKILL ended it)
child_exit ==
    \E name \in ProcessNames :
      /\ children[name] = "running"
      /\ children' = [children EXCEPT ![name] = "exited"]
      /\ UNCHANGED <<relays, relay_logged, pc, args, world, available_personas, prompts, meeting_url,
                     selected_persona_name, processes, shutdown_event,
                     pending_signal, monitor, sweep_logged, cleanup_i,
                     cleanup_calls, after_first, requests, log, exit_code>>

\* SIGINT or SIGTERM reaches the supervisor while its handlers are installed
signal_delivered ==
    /\ pc \notin {"main", "done", "exited"}
    /\ ~pending_signal
    /\ pending_signal' = TRUE
    /\ UNCHANGED <<relays, relay_logged, pc, args, world, available_personas, prompts, meeting_url,
                   selected_persona_name, processes, children, shutdown_event,
                   monitor, sweep_logged, cleanup_i,
                   cleanup_calls, after_first, requests, log, exit_code>>

(***************************************************************************)
(* The relay threads: log_output running on each stream of each child.    *)
(***************************************************************************)
\* lines 62-72: the relay reads one line and logs it
relay_line ==
    \E n \in ProcessNames, s \in Streams : \E raw \in WorldLines(world, n) :
      /\ relays[n][s] = "reading"
      /\ relay_logged' = Some([name |-> n, raw |-> raw,
                               entries |-> log_output_entries(n, raw)])
      /\ UNCHANGED relays
      /\ UNCHANGED <<pc, args, world, available_personas, prompts, meeting_url,
                     selected_persona_name, processes, children, shutdown_event,
                     pending_signal, monitor, sweep_logged, cleanup_i,
                     cleanup_calls, after_first, requests, log, exit_code>>

\* line 62: end of stream: the write end of the pipe is closed, which the
\* child can do at any time and which happens at its death, before or after
\* poll() reports the exit; log_output returns
relay_eof ==
    \E n \in ProcessNames, s \in Streams :
      /\ relays[n][s] = "reading"
      /\ WorldPipesClose(world)
      /\ relays' = [relays EXCEPT ![n][s] = "ended"]
      /\ UNCHANGED relay_logged
      /\ UNCHANGED <<pc, args, world, available_personas, prompts, meeting_url,
                     selected_persona_name, processes, children, shutdown_event,
                     pending_signal, monitor, sweep_logged, cleanup_i,
                     cleanup_calls, after_first, requests, log, exit_code>>

\* line 62: reading the stream raises (e.g. UnicodeDecodeError): nothing in
\* log_output catches it, the exception leaves the thread's target and the
\* thread ends; the logger is not called
relay_read_error ==
    \E n \in ProcessNames, s \in Streams :
      /\ relays[n][s] = "reading"
      /\ <<n, s>> \in WorldFaultyStreams(world)
      /\ relays' = [relays EXCEPT ![n][s] = "raised"]
      /\ UNCHANGED relay_logged
      /\ UNCHANGED <<pc, args, world, available_personas, prompts, meeting_url,
                     selected_persona_name, processes, children, shutdown_event,
                     pending_signal, monitor, sweep_logged, cleanup_i,
                     cleanup_calls, after_first, requests, log, exit_code>>

(***************************************************************************)
(* The supervisor.                                                         *)
(***************************************************************************)
Next ==
    \/ main
    \/ parse_args
    \/ get_user_input
    \/ input_eof
    \/ resolve_persona
    \/ start_bot
    \/ sleep_after_bot
    \/ start_meeting
    \/ wait_begin
    \/ wait_resume
    \/ wait_finally
    \/ join_monitor
    \/ signal_handler
    \/ monitor_processes
    \/ cleanup_begin
    \/ cleanup_terminate
    \/ cleanup_poll_kill
    \/ cleanup_return
    \/ async_main_return
    \/ child_exit
    \/ signal_delivered
    \/ relay_line
    \/ relay_eof
    \/ relay_read_error

Spec == Init /\ [][Next]_vars

\* The event loop runs every runnable coroutine and callback and every
\* sleep ends; the user, the signals and the children owe nothing.
Fairness ==
    /\ WF_vars(main)
    /\ WF_vars(parse_args)
    /\ WF_vars(resolve_persona)
    /\ WF_vars(start_bot)
    /\ WF_vars(sleep_after_bot)
    /\ WF_vars(start_meeting)
    /\ WF_vars(wait_begin)
    /\ WF_vars(wait_resume)
    /\ WF_vars(wait_finally)
    /\ WF_vars(join_monitor)
    /\ WF_vars(signal_handler)
    /\ WF_vars(monitor_processes)
    /\ WF_vars(cleanup_begin)
    /\ WF_vars(cleanup_terminate)
    /\ WF_vars(cleanup_poll_kill)
    /\ WF_vars(cleanup_return)
    /\ WF_vars(async_main_return)

LiveSpec == Init /\ [][Next]_vars /\ Fairness

(***************************************************************************)
(* The supervisor with a monitor task that something cancels.  The code    *)
(* itself never calls monitor_task.cancel().                               *)
(***************************************************************************)
\* monitor_task.cancel(), from a callback of the loop: a task suspended in
\* the sleep of line 119 catches the CancelledError (lines 120-121) and
\* ends; a task that has not run yet, or is suspended in the sleep of line
\* 124 (inside the except clause), ends cancelled
cancel_monitor ==
    /\ monitor \in {"ready", "sleeping"}
    /\ AtAwait
    /\ monitor' = IF monitor = "sleeping" /\ ~sweep_logged.error
                  THEN "done" ELSE "cancelled"
    /\ UNCHANGED <<relays, relay_logged, pc, args, world, available_personas, prompts, meeting_url,
                   selected_persona_name, processes, children, shutdown_event,
                   pending_signal, sweep_logged, cleanup_i,
                   cleanup_calls, after_first, requests, log, exit_code>>

NextCancel == Next \/ cancel_monitor

SpecCancel == Init /\ [][NextCancel]_vars

LiveSpecCancel == Init /\ [][NextCancel]_vars /\ Fairness

(***************************************************************************)
(* cleanup() on its own: every registry the driver can hand it, every      *)
(* state of the children, called MaxCleanupCalls times in sequence.        *)
(***************************************************************************)
Registries ==
    {<<>>,
     <<[name |-> "bot", command |-> BotCommand(DEFAULT_PORT, "alpha")]>>,
     <<[name |-> "bot", command |-> BotCommand(DEFAULT_PORT, "alpha")],
       [name |-> "meeting", command |-> MeetingCommand(UrlGood, "alpha")]>>}

InitCleanup ==
    /\ pc = "finally"
    /\ world = "relays"
    /\ args = [meeting_url |-> Some(UrlGood), persona |-> None,
               port |-> Some(DEFAULT_PORT)]
    /\ available_personas = <<"alpha">>
    /\ prompts = 0
    /\ meeting_url = UrlGood
    /\ selected_persona_name = Some("alpha")
    /\ processes \in Registries
    /\ children \in [ProcessNames -> {"absent", "running", "exited"}]
    /\ \A n \in ProcessNames : Registered(n) => children[n] # "absent"
    /\ children["bot"] = "absent" => children["meeting"] = "absent"
    /\ shutdown_event \in BOOLEAN
    /\ Len(processes) = 2 => shutdown_event
    /\ pending_signal = FALSE
    /\ monitor = IF Len(processes) = 2 THEN "done" ELSE "none"
    /\ sweep_logged = [error |-> FALSE, exited |-> {}]
    /\ cleanup_i = 0
    /\ cleanup_calls = 0
    /\ after_first = None
    /\ requests = <<>>
    /\ log = <<>>
    /\ relays \in [ProcessNames -> [Streams -> {"none", "reading", "ended", "raised"}]]
    /\ \A n \in ProcessNames :
         /\ children[n] = "absent" => \A s \in Streams : relays[n][s] = "none"
         /\ Registered(n) => \A s \in Streams : relays[n][s] # "none"
         /\ relays[n]["stderr"] # "none" => Registered(n)
         /\ \A s \in Streams :
              relays[n][s] = "raised" => <<n, s>> \in WorldFaultyStreams(world)
    /\ relay_logged = None
    /\ exit_code = None

\* the caller invokes cleanup() again after it returned
cleanup_again ==
    /\ pc = "cleanup_returned"
    /\ cleanup_calls < MaxCleanupCalls
    /\ pc' = "finally"
    /\ UNCHANGED <<relays, relay_logged, args, world, available_personas, prompts, meeting_url,
                   selected_persona_name, processes, children, shutdown_event,
                   pending_signal, monitor, sweep_logged, cleanup_i,
                   cleanup_calls, after_first, requests, log, exit_code>>

NextCleanup ==
    \/ cleanup_begin
    \/ cleanup_terminate
    \/ cleanup_poll_kill
    \/ cleanup_return
    \/ cleanup_again
    \/ child_exit
    \/ relay_line
    \/ relay_eof
    \/ relay_read_error

SpecCleanup == InitCleanup /\ [][NextCleanup]_vars

(***************************************************************************)
(* The relay threads on their own, beside a supervisor in Running.        *)
(***************************************************************************)
\* The relays beside the supervisor in Running: both children started, the
\* driver in its blocking wait, the monitor task created.
InitRelay ==
    /\ pc = "waiting"
    /\ world = "all lines"
    /\ args = [meeting_url |-> Some(UrlGood), persona |-> None,
               port |-> Some(DEFAULT_PORT)]
    /\ available_personas = <<"alpha">>
    /\ prompts = 0
    /\ meeting_url = UrlGood
    /\ selected_persona_name = Some("alpha")
    /\ processes = <<[name |-> "bot", command |-> BotCommand(DEFAULT_PORT, "alpha")],
                     [name |-> "meeting", command |-> MeetingCommand(UrlGood, "alpha")]>>
    /\ children = [n \in ProcessNames |-> "running"]
    /\ shutdown_event = FALSE
    /\ pending_signal = FALSE
    /\ monitor = "ready"
    /\ sweep_logged = [error |-> FALSE, exited |-> {}]
    /\ cleanup_i = 0
    /\ cleanup_calls = 0
    /\ after_first = None
    /\ requests = <<>>
    /\ log = <<LogEntry("info", "Starting bot", ""),
               LogEntry("warning", "Selected persona", "alpha"),
               LogEntry("warning", "System prompt", "alpha"),
               LogEntry("success", "Successfully started", ""),
               LogEntry("info", "Press Ctrl+C to stop all processes", "")>>
    /\ relays = [n \in ProcessNames |-> [s \in Streams |-> "reading"]]
    /\ relay_logged = None
    /\ exit_code = None

NextRelay ==
    \/ relay_line
    \/ relay_eof
    \/ relay_read_error
    \/ child_exit
    \/ monitor_processes
    \/ signal_delivered
    \/ signal_handler
    \/ wait_resume

SpecRelay == InitRelay /\ [][NextRelay]_vars

(***************************************************************************)
(* Properties.                                                             *)
(***************************************************************************)
IsTerminate(r) == r.op = "terminate"
IsKill(r) == r.op = "kill"
IsRaised(r) == r.raised

\* the names terminate() was called on, in call order
TerminatedNames == Names(SelectSeq(requests, IsTerminate))

HasLog(msg) == \E k \in 1..Len(log) : log[k].msg = msg

CleanupOver == pc \in {"cleanup_returned", "done"}

\* the step calls process.kill()
KillStep == /\ Len(requests') = Len(requests) + 1
            /\ requests'[Len(requests')].op = "kill"

\* C1: cleanup() calls terminate() on every registered process, in registry
\* order (bot before meeting); a kill() of a process comes right after a
\* terminate() of the same process that did not raise, and is issued only
\* when, the wait over, that process is found still running.
C1_CleanupOrder ==
    /\ [](/\ CleanupOver /\ cleanup_calls = 1 => TerminatedNames = Names(processes)
          /\ \A k \in 1..Len(TerminatedNames) :
               k <= Len(processes) /\ TerminatedNames[k] = processes[k].name
          /\ \A k \in 1..Len(requests) :
               requests[k].op = "kill" =>
                 /\ k > 1
                 /\ requests[k - 1] = Request("terminate", requests[k].name, FALSE))
    /\ [][KillStep =>
            /\ pc = "cleanup_sleep"
            /\ requests'[Len(requests')].name = processes[cleanup_i].name
            /\ children[processes[cleanup_i].name] = "running"]_vars

\* C1 witness: both processes registered; the bot exited during the wait and
\* got no kill(), the meeting ignored terminate and got a kill().
C1_Witness ==
    /\ pc = "done"
    /\ requests = <<Request("terminate", "bot", FALSE),
                    Request("terminate", "meeting", FALSE),
                    Request("kill", "meeting", FALSE)>>
    /\ children = [n \in ProcessNames |-> "exited"]

\* C2: whichever terminate() or kill() calls raise, cleanup() stays in its
\* loop until it returns normally, and by then terminate() has been called
\* on every registered process.
C2_PartialFailureIsolation ==
    /\ (\E k \in 1..Len(requests) : requests[k].raised) =>
          /\ pc \in {"cleanup_loop", "cleanup_sleep", "cleanup_returned", "done"}
          /\ exit_code \in {None, Some(0)}
    /\ CleanupOver =>
          /\ \A k \in 1..Len(processes) : InSeq(processes[k].name, TerminatedNames)
          /\ HasLog("Cleanup completed successfully")

\* C2 witness: terminate() of the bot raised, the meeting was still sent
\* terminate and then a kill that raised too, and cleanup() returned.
C2_Witness ==
    /\ pc = "done"
    /\ requests = <<Request("terminate", "bot", TRUE),
                    Request("terminate", "meeting", FALSE),
                    Request("kill", "meeting", TRUE)>>

RegisteredStates(ch) == [k \in 1..Len(processes) |-> ch[processes[k].name]]

SecondCallOver == pc = "cleanup_returned" /\ cleanup_calls >= 2

\* C3 as stated: after a second cleanup() the registry and the registered
\* processes' running/exited states equal those after the first call.
C3_IdempotentAsStated ==
    SecondCallOver =>
      /\ exit_code = None
      /\ processes = after_first[1].processes
      /\ RegisteredStates(children) = RegisteredStates(after_first[1].children)

\* C3 amended: a second cleanup() raises nothing, the first call having run
\* its loop to the end (line 105); it leaves the registry as the first call
\* left it, calls terminate() on every registered process again
\* and turns no exited process back to running; the registered processes'
\* states are those the first call left whenever all of them had exited
\* when the first call returned.
C3_Idempotent ==
    SecondCallOver =>
      /\ exit_code = None
      /\ after_first # None
      /\ processes = after_first[1].processes
      /\ \A n \in ProcessNames :
           after_first[1].children[n] = "exited" => children[n] = "exited"
      /\ (\A k \in 1..Len(processes) :
             after_first[1].children[processes[k].name] = "exited") =>
           RegisteredStates(children) = RegisteredStates(after_first[1].children)
      /\ Len(SelectSeq(requests, IsTerminate)) = cleanup_calls * Len(processes)

\* C3 witness: two registered processes, a first call in which nothing
\* raised and one process got a kill(), and a second call that returned.
C3_Witness ==
    /\ SecondCallOver
    /\ Len(processes) = 2
    /\ \A k \in 1..Len(after_first[1].requests) : ~after_first[1].requests[k].raised
    /\ \E k \in 1..Len(after_first[1].requests) : after_first[1].requests[k].op = "kill"
    /\ Len(requests) > Len(after_first[1].requests)

AfterWait == {"wait_finally", "join_monitor", "finally", "cleanup_loop",
              "cleanup_sleep", "cleanup_returned", "done"}

\* C4: the shutdown_event, once set, is never cleared, whichever of the
\* signal handler and the driver's finally sets it and however often; the
\* suspended wait is resumed only by the set event, and once the driver is
\* past the wait it never waits again.
C4_SetOnce ==
    /\ [][shutdown_event => shutdown_event']_vars
    /\ [][pc = "waiting" /\ pc' # "waiting" => shutdown_event /\ pc' = "wait_finally"]_vars
    /\ [][(pc \in AfterWait) => (pc' \in AfterWait)]_vars
    /\ [](pc \in {"join_monitor"} => shutdown_event)

\* C4 witness: the handler set the event (the wait was resumed), the
\* driver's finally set it again, and a further signal is about to set it
\* a third time.
C4_Witness ==
    /\ pc = "join_monitor"
    /\ shutdown_event
    /\ pending_signal
    /\ monitor = "sleeping"

StartFailed == HasLog("Failed to start bot") \/ HasLog("Failed to start meeting")

\* C5: without a handle for the bot the meeting is never spawned; a start
\* that yields no handle sends the driver straight to its finally, with no
\* monitor task and no wait; cleanup() then works on exactly the processes
\* that did yield a handle, of which there are at most one.
C5_StartFailure ==
    /\ [](/\ ~Registered("bot") => children["meeting"] = "absent"
          /\ StartFailed =>
               /\ Len(processes) <= 1
               /\ monitor = "none"
               /\ pc \in {"finally", "cleanup_loop", "cleanup_sleep",
                          "cleanup_returned", "done"}
               /\ \A k \in 1..Len(requests) : Registered(requests[k].name)
               /\ CleanupOver => TerminatedNames = Names(processes))
    /\ [][pc = "start_bot" /\ pc' # pc =>
            IF Registered("bot")' THEN pc' = "sleep_after_bot"
            ELSE pc' = "finally" /\ HasLog("Failed to start bot")']_vars
    /\ [][pc = "start_meeting" /\ pc' # pc =>
            IF Registered("meeting")' THEN pc' = "wait"
            ELSE pc' = "finally" /\ HasLog("Failed to start meeting")']_vars

\* C5 witness: the bot started, the meeting did not; cleanup() terminated
\* the one registered process and the driver is done.
C5_Witness ==
    /\ pc = "done"
    /\ HasLog("Failed to start meeting")
    /\ Names(processes) = <<"bot">>
    /\ TerminatedNames = <<"bot">>

FatalStartupError ==
    \/ StartFailed
    \/ HasLog("Unexpected error: persona not found")

SessionEnded == pc \in {"done", "exited"}

\* C6: a session that ended after a fatal startup error (no handle for the
\* bot or the meeting, or an unknown --persona) has exit code 1; a session
\* that ran both processes and was shut down by a signal has exit code 0.
C6_ExitCode ==
    SessionEnded =>
      /\ FatalStartupError => exit_code = Some(1)
      /\ (~FatalStartupError /\ Len(processes) = 2 /\ shutdown_event) =>
           exit_code = Some(0)

UnknownPersonaSupplied ==
    /\ TruthyName(args.persona)
    /\ ~InSeq(args.persona[1], available_personas)

\* C7: with a --persona that list_personas() does not contain, nothing is
\* ever spawned or registered, no start is attempted, and the session ends
\* in the finally path with the error logged.
C7_UnknownPersona ==
    UnknownPersonaSupplied =>
      /\ processes = <<>>
      /\ \A n \in ProcessNames : children[n] = "absent"
      /\ requests = <<>>
      /\ selected_persona_name = None
      /\ pc \in {"main", "parse_args", "prompt", "try", "finally", "cleanup_loop",
                 "cleanup_returned", "done", "exited"}
      /\ pc \in {"finally", "cleanup_loop", "cleanup_returned", "done"} =>
           HasLog("Unexpected error: persona not found")

\* C7 witness: --persona gamma against ["alpha", "beta"], session over.
C7_Witness ==
    /\ pc = "done"
    /\ args.persona = Some("gamma")
    /\ available_personas = <<"alpha", "beta">>
    /\ HasLog("Unexpected error: persona not found")

\* C8: the meeting process is only ever spawned with a URL that starts with
\* the required prefix, and with an invalid --meeting-url no process at all
\* is spawned.
C8_NoInvalidUrlSpawned ==
    /\ children["meeting"] # "absent" => validate_url_ok(meeting_url)
    /\ (TruthyUrl(args.meeting_url) /\ ~validate_url_ok(args.meeting_url[1])) =>
         \A n \in ProcessNames : children[n] = "absent"

InTry == pc \in {"try", "start_bot", "sleep_after_bot", "start_meeting", "wait",
                 "waiting", "wait_finally", "join_monitor", "finally",
                 "cleanup_loop", "cleanup_sleep", "cleanup_returned"}

ErrorOccurred ==
    \/ FatalStartupError
    \/ HasLog("Unexpected error: IndexError")

Finished == pc = "done" /\ cleanup_calls = 1 /\ HasLog("Cleanup completed successfully")

\* C9: once the driver is in its try block, whatever error occurred and as
\* soon as a shutdown signal is delivered or the event is set, cleanup() is
\* eventually run and the driver reaches Done; the only place it can stay
\* for ever is the blocking wait of Running with no signal delivered.
C9_EventuallyDone ==
    /\ (InTry /\ (ErrorOccurred \/ shutdown_event \/ pending_signal)) ~> Finished
    /\ InTry ~> (Finished \/ (pc = "waiting" /\ ~shutdown_event /\ ~pending_signal))

\* C9 witness: both processes ran, the event was set while the driver
\* waited, the monitor ended, cleanup() ran and the driver is done.
C9_Witness ==
    /\ Finished
    /\ Len(processes) = 2
    /\ monitor = "done"
    /\ shutdown_event
    /\ ~ErrorOccurred

\* the step is a turn of the monitor's loop
SweepStep ==
    /\ monitor \in {"ready", "sleeping"}
    /\ monitor' # monitor \/ sweep_logged' # sweep_logged

\* C10: a turn of the sweep changes neither the registry, nor a child's
\* state, nor the event, nor the driver, and calls neither terminate() nor
\* kill(); it logs only registered children that have exited; a cleanup()
\* that runs after the sweep saw a child exited calls terminate() on every
\* registered process, kills none the sweep saw exited, and completes.
C10_SweepOnlyLogs ==
    /\ [][SweepStep =>
            UNCHANGED <<processes, children, shutdown_event, requests, pc,
                        cleanup_i, exit_code, log>>]_vars
    /\ [](\A n \in sweep_logged.exited : Registered(n) /\ children[n] = "exited")
    /\ []((pc = "done" /\ sweep_logged.exited # {}) =>
            /\ TerminatedNames = Names(processes)
            /\ \A k \in 1..Len(requests) :
                 requests[k].op = "kill" => requests[k].name \notin sweep_logged.exited
            /\ HasLog("Cleanup completed successfully")
            /\ exit_code = Some(0))

\* C10 witness: the sweep logged the bot as exited while the driver waited;
\* cleanup() then called terminate() on both and kill() only on the meeting.
C10_Witness ==
    /\ pc = "done"
    /\ sweep_logged = [error |-> FALSE, exited |-> {"bot"}]
    /\ requests = <<Request("terminate", "bot", FALSE),
                    Request("terminate", "meeting", FALSE),
                    Request("kill", "meeting", FALSE)>>

\* the monitor task ended although the event was not set: it was cancelled
MonitorCancelled ==
    \/ monitor = "cancelled"
    \/ monitor = "done" /\ ~shutdown_event

\* C11 as stated: a driver in Running whose monitor task was cancelled
\* leaves Running and proceeds to cleanup.
C11_CancelLeavesRunning ==
    (pc = "waiting" /\ MonitorCancelled) ~> (pc # "waiting")

\* C11 amended: the driver leaves Running only when the event is set; the
\* cancellation of the monitor task ends the sweep and leaves the driver
\* where it is; once the event is set or a signal is delivered the driver
\* leaves Running, runs cleanup() and reaches Done, cancelled monitor or not.
C11_RunningLeftOnlyByEvent ==
    /\ [][pc = "waiting" /\ pc' # "waiting" => shutdown_event /\ pc' = "wait_finally"]_vars
    /\ [][(monitor \in {"ready", "sleeping"} /\ monitor' \in {"done", "cancelled"}) =>
            pc' = pc /\ shutdown_event' = shutdown_event]_vars
    /\ [](monitor \in {"done", "cancelled"} => ~ENABLED monitor_processes)
    /\ (pc = "waiting" /\ (shutdown_event \/ pending_signal)) ~> Finished

\* C11 witness: the monitor task was cancelled, no signal was delivered,
\* and the driver is still in its blocking wait.
C11_Witness ==
    /\ pc = "waiting"
    /\ monitor = "cancelled"
    /\ ~shutdown_event
    /\ ~pending_signal

\* C12: with the event set, a turn of the monitor's loop starts no sweep: it
\* logs nothing and ends the task; once the event is set the task ends at
\* its next wake-up and the waiting driver leaves its wait.
C12_SweepStopsOnEvent ==
    /\ [][(shutdown_event /\ SweepStep) =>
            (monitor' = "done" /\ sweep_logged' = sweep_logged)]_vars
    /\ (shutdown_event /\ monitor \in {"ready", "sleeping"}) ~> (monitor = "done")
    /\ (shutdown_event /\ pc = "waiting") ~> (pc # "waiting")

\* C12 witness: the event was set while the driver waited and the monitor
\* task, which had swept before, saw it and ended before the driver resumed.
C12_Witness ==
    /\ pc = "waiting"
    /\ shutdown_event
    /\ monitor = "done"
    /\ sweep_logged.exited = {"bot"}

\* the step runs signal_handler
HandlerStep == pending_signal /\ ~pending_signal'

Starting == {"start_bot", "sleep_after_bot", "start_meeting"}
Running == {"wait", "waiting"}

\* C13: a run of the signal handler sets the event and changes nothing
\* else (no registry entry, no child, no terminate() or kill(), no move of
\* the driver or the monitor); terminate() and kill() are called only by
\* cleanup(), after the driver entered its finally, never while the driver
\* is in Starting or Running.
C13_HandlerOnlySetsEvent ==
    /\ [][HandlerStep =>
            /\ shutdown_event'
            /\ UNCHANGED <<pc, processes, children, requests, monitor,
                           sweep_logged, cleanup_i, cleanup_calls, log,
                           exit_code, selected_persona_name, meeting_url>>]_vars
    /\ [][requests' # requests =>
            /\ pc \in {"cleanup_loop", "cleanup_sleep"}
            /\ cleanup_calls >= 1
            /\ ~HandlerStep]_vars
    /\ [](pc \in Starting \cup Running => requests = <<>>)

\* C13 witness: the handler has run while the driver waited with both
\* children running: the event is set, nothing was terminated.
C13_Witness ==
    /\ pc = "waiting"
    /\ shutdown_event
    /\ ~pending_signal
    /\ children = [n \in ProcessNames |-> "running"]
    /\ requests = <<>>

\* C14: while cleanup() runs, the monitor task either was never created or
\* has ended; a turn of the monitor's loop happens only while the driver is
\* in its wait or awaits the task.
C14_NoOverlap ==
    /\ [](pc \in {"finally", "cleanup_loop", "cleanup_sleep", "cleanup_returned"} =>
            monitor \in {"none", "done"})
    /\ [](monitor = "none" \/ Len(processes) = 2)
    /\ [][SweepStep => pc \in {"waiting", "join_monitor"} /\ requests = <<>>]_vars

\* C14 witness: the driver reached Running, the sweep ran, the task ended,
\* and cleanup() is in the wait after a terminate().
C14_Witness ==
    /\ pc = "cleanup_sleep"
    /\ monitor = "done"
    /\ sweep_logged.exited = {"meeting"}
    /\ Len(requests) = 1

\* C15: a name is registered exactly when a child was spawned for it.
C15_RegisteredIffSpawned ==
    \A n \in ProcessNames : Registered(n) <=> children[n] # "absent"

\* C16: a turn of the sweep that raises leaves the task alive and asleep,
\* sets no event, moves no driver and ends no supervisor; while the event is
\* unset and the driver is suspended, the task can take a further turn.
C16_SweepSurvivesError ==
    /\ [][(SweepStep /\ sweep_logged'.error /\ sweep_logged' # sweep_logged) =>
            /\ monitor' = "sleeping"
            /\ UNCHANGED <<shutdown_event, pc, exit_code, processes, children>>]_vars
    /\ []((monitor = "sleeping" /\ sweep_logged.error /\ ~shutdown_event /\ AtAwait) =>
            ENABLED (monitor_processes /\ monitor' = "sleeping" /\ ~sweep_logged'.error))
    /\ [](sweep_logged.error => monitor # "ready")

\* C16 witness: the latest sweep raised; the task sleeps, the event is
\* unset and the driver still waits.
C16_Witness ==
    /\ monitor = "sleeping"
    /\ sweep_logged.error
    /\ ~shutdown_event
    /\ pc = "waiting"
    /\ exit_code = None

\* C17: no relay ends by an exception that leaves log_output: a read error
\* is caught and logged, and the relay returns.
C17_RelayNeverRaises ==
    \A n \in ProcessNames, s \in Streams : relays[n][s] # "raised"

WhitespaceOnly(raw) == \A k \in 1..Len(raw) : raw[k] \in Whitespace

\* C18: a whitespace-only line is not logged; any other line is logged
\* exactly once, under the relay's prefix, at severity error if it contains
\* "ERROR", else warning if it contains "WARNING", else success if it
\* contains "SUCCESS", else info.
C18_Severity ==
    relay_logged # None =>
      LET r == relay_logged[1] IN
        /\ WhitespaceOnly(r.raw) <=> r.entries = <<>>
        /\ Len(r.entries) <= 1
        /\ r.entries # <<>> =>
             LET e == r.entries[1] IN
               /\ e.prefix = r.name
               /\ e.level \in {"error", "warning", "success", "info"}
               /\ e.level = "error" <=> Contains(r.raw, W_ERROR)
               /\ e.level = "warning" <=>
                    (~Contains(r.raw, W_ERROR) /\ Contains(r.raw, W_WARNING))
               /\ e.level = "success" <=>
                    (/\ ~Contains(r.raw, W_ERROR)
                     /\ ~Contains(r.raw, W_WARNING)
                     /\ Contains(r.raw, W_SUCCESS))

\* C18 witness: a line holding both "WARNING" and "ERROR" was read from the
\* meeting and logged at severity error.
C18_Witness ==
    /\ relay_logged # None
    /\ relay_logged[1].name = "meeting"
    /\ relay_logged[1].raw = W_WARNING \o <<" ">> \o W_ERROR \o <<"\n">>
    /\ Len(relay_logged[1].entries) = 1
    /\ relay_logged[1].entries[1].level = "error"

\* C19: a signal delivered, or handled, while the driver is in Starting
\* with the bot started stays pending or leaves the event set; the wait
\* reached with the event set returns at once; the driver then runs
\* cleanup(), which calls terminate() on every registered process, the
\* meeting started after the signal included, and reaches Done.
C19_SignalInStartingNotLost ==
    /\ [][(pc \in Starting /\ shutdown_event) => shutdown_event']_vars
    /\ [][(pc \in Starting /\ pending_signal) => (pending_signal' \/ shutdown_event')]_vars
    /\ [][(pc = "wait" /\ shutdown_event /\ pc' # pc) => pc' = "wait_finally"]_vars
    /\ (pc \in {"sleep_after_bot", "start_meeting"} /\ (pending_signal \/ shutdown_event))
         ~> (Finished /\ TerminatedNames = Names(processes))

\* C19 witness: the event was set during the sleep that follows the start
\* of the bot, the meeting was started after that, and the driver is about
\* to call the wait.
C19_Witness ==
    /\ pc = "wait"
    /\ shutdown_event
    /\ Names(processes) = <<"bot", "meeting">>
    /\ children["meeting"] = "running"

NoRequestRaised == \A k \in 1..Len(requests) : ~requests[k].raised

\* C20: when cleanup() has returned and no terminate() or kill() raised,
\* every registered process has exited, whichever children ignored
\* terminate(); so it is when the driver is Done.
C20_AllExitedAfterCleanup ==
    (CleanupOver /\ NoRequestRaised) =>
      \A k \in 1..Len(processes) : children[processes[k].name] = "exited"

====
